---- MODULE Spec2Model ----
(***************************************************************************)
(* State-machine model of the nexa-sdk inference gateway                   *)
(* (src/nexa/gguf/server/nexa_service.py): process start-up                *)
(* (run_nexa_ai_service, startup_event, load_model) and the request        *)
(* handlers with the streaming adapter.  The wrapped engines (Llama,       *)
(* StableDiffusion, WhisperModel, pull_model) are the environment: what    *)
(* they return or raise is drawn from small sets.                          *)
(***************************************************************************)
EXTENDS Integers, Sequences, FiniteSets, TLC

VARIABLES
    phase,                \* "cli" | "startup" | "loaded" | "ready" | "failed"
    args,                 \* the arguments run_nexa_ai_service was called with
    env,                  \* os.environ: MODEL_PATH, IS_LOCAL_PATH, MODEL_TYPE, HUGGINGFACE, PROJECTOR_PATH
    model,                \* global model: the loaded handle, kind "None" before
    chat_format,          \* global chat_format
    completion_template,  \* global completion_template
    model_path,           \* global model_path
    is_local_path,        \* global is_local_path
    model_type,           \* global model_type
    is_huggingface,       \* global is_huggingface
    projector_path,       \* global projector_path
    loadTrace,            \* what the load_model call did, in order: constructions, log lines, the raise
    rstate,               \* the request in hand: "idle" | "streaming" | "done" | "aborted"
    req,                  \* the request last admitted, with the producer the engine gave it
    resp,                 \* the response the handler returned for it
    engineCall,           \* the call the handler made on the model handle
    streamer,             \* units the streaming adapter has not consumed yet
    streamerRaises,       \* whether the producer raises once those are consumed
    events,               \* events the streaming adapter has emitted
    nativeCalls,          \* llava entry points the request in hand has called, in order
    consumed,             \* units consumed from the producer so far
    consumedAtResponse,   \* units consumed when the handler returned its response
    tempFiles,            \* temporary audio files on the filesystem
    outFiles,             \* nexa_server_output: path -> image it holds
    now                   \* time.time() in whole seconds

startVars == <<phase, args, env, model, chat_format, completion_template, model_path,
               is_local_path, model_type, is_huggingface, projector_path, loadTrace>>

\* Python's None among string values.
NoneVal == "<None>"

\* Python truthiness of an optional string: None and "" are falsy.
Truthy(s) == s /= NoneVal /\ s /= ""

\* str(bool) as run_nexa_ai_service writes it to the environment.
PyStr(b) == IF b THEN "True" ELSE "False"

\* str.lower() on the values the environment flags take.
PyLower(s) ==
    CASE s = "True" -> "true"
      [] s = "False" -> "false"
      [] OTHER -> s

\* os.path.abspath on the model path arguments of the model.
AbsPath(p) == "/cwd/" \o p

(***************************************************************************)
(* The model hub and the static tables of nexa.constants.                  *)
(***************************************************************************)
\* Identifiers pull_model can resolve, with the run type it returns for each.
HubIds == {"gemma", "octopus:q4_0", "fcmodel", "sd", "whisper", "nanollava"}

\* Repositories pull_model(..., hf=True) can resolve on Hugging Face.
HfIds == {"hf/repo"}

HubRunType(id) ==
    CASE id \in {"gemma", "octopus:q4_0", "fcmodel"} -> "NLP"
      [] id = "sd" -> "Computer Vision"
      [] id = "whisper" -> "Audio"
      [] id = "nanollava" -> "Multimodal"
      [] OTHER -> "UNKNOWN"

NEXA_RUN_MODEL_MAP_VLM == {"nanollava"}

NEXA_RUN_MODEL_MAP_FUNCTION_CALLING == {"fcmodel"}

\* model name -> chat format name; absent names give None.
NEXA_RUN_CHAT_TEMPLATE_MAP(name) ==
    CASE name = "gemma" -> "gemma"
      [] name = "nanollava" -> "nanollava"
      [] OTHER -> NoneVal

\* model name -> completion template; absent names give None.
NEXA_RUN_COMPLETION_TEMPLATE_MAP(name) ==
    CASE name = "octopus" -> "Query: {input} Response:"
      [] OTHER -> NoneVal

\* Files present on the local disk (model artifacts given with --local_path).
LocalFiles == {AbsPath("local.gguf"), "proj.gguf"}

\* The artifact pull_model stores for a hub identifier.
HubArtifact(id) == "~/.cache/nexa/" \o id

\* Whether a path names a model artifact an engine constructor can open.
ArtifactExists(path) ==
    path \in LocalFiles \/ \E id \in HubIds \cup HfIds : path = HubArtifact(id)

\* pull_model(model_path[, hf=True]): the local artifact and the run type. An
\* identifier that cannot be resolved either raises or comes back without artifact
\* and with an unknown run type (raises chosen by the environment).
pull_model(id, hf, raises) ==
    IF (~hf /\ id \in HubIds) \/ (hf /\ id \in HfIds)
    THEN [raised |-> FALSE, path |-> HubArtifact(id), run_type |-> HubRunType(id)]
    ELSE [raised |-> raises, path |-> NoneVal, run_type |-> "UNKNOWN"]

\* model_path.split(":")[0].lower() on the identifiers of the model.
ModelName(id) ==
    CASE id = "octopus:q4_0" -> "octopus"
      [] OTHER -> id

(***************************************************************************)
(* run_nexa_ai_service                                                     *)
(***************************************************************************)
NoEnv == [MODEL_PATH |-> NoneVal, IS_LOCAL_PATH |-> NoneVal, MODEL_TYPE |-> NoneVal,
          HUGGINGFACE |-> NoneVal]

\* The result of run_nexa_ai_service up to uvicorn.run: raised, or the globals and
\* the environment it set.
run_nexa_ai_service(a) ==
    LET base == [raised |-> FALSE, is_local_path |-> a.is_local_path_arg,
                 is_huggingface |-> a.huggingface, model_path |-> NoneVal,
                 model_type |-> NoneVal, env |-> NoEnv]
    IN  IF a.is_local_path_arg \/ a.huggingface
        THEN IF ~Truthy(a.model_path_arg)
             THEN [base EXCEPT !.raised = TRUE]
             ELSE IF a.is_local_path_arg /\ ~Truthy(a.model_type_arg)
             THEN [base EXCEPT !.raised = TRUE]
             ELSE LET mp == IF a.is_local_path_arg THEN AbsPath(a.model_path_arg)
                            ELSE a.model_path_arg
                      mt == a.model_type_arg
                  IN  [base EXCEPT !.model_path = mp, !.model_type = mt,
                         !.env = [MODEL_PATH |-> mp,
                                  IS_LOCAL_PATH |-> PyStr(a.is_local_path_arg),
                                  MODEL_TYPE |-> IF Truthy(mt) THEN mt ELSE "",
                                  HUGGINGFACE |-> PyStr(a.huggingface)]]
        ELSE LET mp == IF Truthy(a.model_path_arg) THEN a.model_path_arg ELSE "gemma"
             IN  [base EXCEPT !.model_path = mp, !.model_type = NoneVal,
                    !.env = [MODEL_PATH |-> mp,
                             IS_LOCAL_PATH |-> PyStr(a.is_local_path_arg),
                             MODEL_TYPE |-> "",
                             HUGGINGFACE |-> PyStr(a.huggingface)]]

(***************************************************************************)
(* load_model                                                              *)
(***************************************************************************)
\* Marks a local variable of load_model that no branch taken has assigned.
Unbound == "<unbound>"

NoModel == [kind |-> "None"]

LlamaEvent(n) == [ev |-> "Llama", n_gpu_layers |-> n]

LogError == [ev |-> "logging.error: Falling back to CPU", n_gpu_layers |-> 0]

RaiseEvent == [ev |-> "raise", n_gpu_layers |-> 0]

\* A constructor raised.
ExcEvent == [ev |-> "exception", n_gpu_layers |-> 0]

\* A try/except that, when the CPU construction fails too, constructs once more.
LlamaWithFallback_ThirdAttempt(path, e) ==
    LET n1 == IF e.gpu_available THEN -1 ELSE 0
        ok1 == ArtifactExists(path) /\ e.firstOK
        ok2 == ArtifactExists(path) /\ e.secondOK
    IN  IF ok1
        THEN [ok |-> TRUE, trace |-> <<LlamaEvent(n1)>>]
        ELSE IF ok2
        THEN [ok |-> TRUE, trace |-> <<LlamaEvent(n1), ExcEvent, LogError, LlamaEvent(0)>>]
        ELSE [ok |-> FALSE,
              trace |-> <<LlamaEvent(n1), ExcEvent, LogError, LlamaEvent(0), ExcEvent,
                          LlamaEvent(0), ExcEvent>>]

\* The try/except around the Llama construction, the same in the function-calling,
\* the text and the vision-language branch: Llama(n_gpu_layers=-1 if
\* is_gpu_available() else 0); on any exception logging.error and
\* Llama(n_gpu_layers=0), whose exception is not caught.
LlamaWithFallback(path, e) ==
    LET n1 == IF e.gpu_available THEN -1 ELSE 0
        ok1 == ArtifactExists(path) /\ e.firstOK
        ok2 == ArtifactExists(path) /\ e.secondOK
    IN  IF ok1
        THEN [ok |-> TRUE, trace |-> <<LlamaEvent(n1)>>]
        ELSE IF ok2
        THEN [ok |-> TRUE, trace |-> <<LlamaEvent(n1), ExcEvent, LogError, LlamaEvent(0)>>]
        ELSE [ok |-> FALSE,
              trace |-> <<LlamaEvent(n1), ExcEvent, LogError, LlamaEvent(0), ExcEvent>>]

\* A resolution that also takes the model type from pull_model(..., hf=True).
ResolveModel_TypeFromHf(g, e) ==
    LET base == [raised |-> FALSE, downloaded_path |-> Unbound,
                 projector_downloaded_path |-> Unbound, model_type |-> g.model_type]
    IN  IF g.model_type = "Multimodal"
        THEN IF g.is_local_path
             THEN IF ~Truthy(g.projector_path)
                  THEN [base EXCEPT !.raised = TRUE]
                  ELSE [base EXCEPT !.downloaded_path = g.model_path,
                                    !.projector_downloaded_path = g.projector_path]
             ELSE IF g.model_path \in NEXA_RUN_MODEL_MAP_VLM
             THEN LET p == pull_model(g.model_path, FALSE, e.pull_raises)
                  IN  [base EXCEPT !.raised = p.raised,
                                   !.downloaded_path = p.path,
                                   !.projector_downloaded_path = "proj.gguf"]
             ELSE [base EXCEPT !.raised = TRUE]
        ELSE IF g.is_local_path
        THEN [base EXCEPT !.downloaded_path = g.model_path]
        ELSE IF g.is_huggingface
        THEN LET p == pull_model(g.model_path, TRUE, e.pull_raises)
             IN  [base EXCEPT !.raised = p.raised, !.downloaded_path = p.path,
                              !.model_type = IF p.raised THEN g.model_type ELSE p.run_type]
        ELSE LET p == pull_model(g.model_path, FALSE, e.pull_raises)
             IN  [base EXCEPT !.raised = p.raised, !.downloaded_path = p.path,
                              !.model_type = IF p.raised THEN g.model_type ELSE p.run_type]

\* The first if/else of load_model: the artifact paths and the model type.
ResolveModel(g, e) ==
    LET base == [raised |-> FALSE, downloaded_path |-> Unbound,
                 projector_downloaded_path |-> Unbound, model_type |-> g.model_type]
    IN  IF g.model_type = "Multimodal"
        THEN IF g.is_local_path
             THEN IF ~Truthy(g.projector_path)
                  THEN [base EXCEPT !.raised = TRUE]
                  ELSE [base EXCEPT !.downloaded_path = g.model_path,
                                    !.projector_downloaded_path = g.projector_path]
             ELSE IF g.model_path \in NEXA_RUN_MODEL_MAP_VLM
             THEN LET p == pull_model(g.model_path, FALSE, e.pull_raises)
                  IN  [base EXCEPT !.raised = p.raised,
                                   !.downloaded_path = p.path,
                                   !.projector_downloaded_path = "proj.gguf"]
             ELSE [base EXCEPT !.raised = TRUE]
        ELSE IF g.is_local_path
        THEN [base EXCEPT !.downloaded_path = g.model_path]
        ELSE IF g.is_huggingface
        THEN LET p == pull_model(g.model_path, TRUE, e.pull_raises)
             IN  [base EXCEPT !.raised = p.raised, !.downloaded_path = p.path]
        ELSE LET p == pull_model(g.model_path, FALSE, e.pull_raises)
             IN  [base EXCEPT !.raised = p.raised, !.downloaded_path = p.path,
                              !.model_type = IF p.raised THEN g.model_type ELSE p.run_type]

\* A final else that returns, leaving the model unset, instead of raising.
UnknownKind_NoRaise(out) == out

\* The final else of load_model: raise ValueError("Model ... not found in Model Hub").
UnknownKind(out) == [out EXCEPT !.raised = TRUE, !.trace = @ \o <<RaiseEvent>>]

\* load_model: the globals it assigns (those written before a raise stay written),
\* whether it raised, and its constructions and log lines in order.
load_model(g, e) ==
    LET r == ResolveModel(g, e)
        out == [raised |-> FALSE, model |-> g.model, chat_format |-> g.chat_format,
                completion_template |-> g.completion_template,
                model_type |-> r.model_type, trace |-> <<>>]
    IN  IF r.raised
        THEN [out EXCEPT !.raised = TRUE, !.trace = <<RaiseEvent>>]
        ELSE IF r.model_type = "NLP"
        THEN IF g.model_path \in NEXA_RUN_MODEL_MAP_FUNCTION_CALLING
             THEN LET l == LlamaWithFallback(r.downloaded_path, e)
                  IN  IF l.ok
                      THEN [out EXCEPT !.chat_format = "chatml-function-calling",
                              !.model = [kind |-> "Llama"],
                              !.trace = l.trace]
                      ELSE [out EXCEPT !.chat_format = "chatml-function-calling",
                              !.raised = TRUE, !.trace = l.trace \o <<RaiseEvent>>]
             ELSE LET model_name == ModelName(g.model_path)
                      ct == NEXA_RUN_COMPLETION_TEMPLATE_MAP(model_name)
                      l == LlamaWithFallback(r.downloaded_path, e)
                  IN  IF l.ok
                      THEN [out EXCEPT !.chat_format = e.meta_template,
                              !.completion_template = ct,
                              !.model = [kind |-> "Llama"],
                              !.trace = l.trace]
                      ELSE [out EXCEPT !.chat_format = NEXA_RUN_CHAT_TEMPLATE_MAP(model_name),
                              !.completion_template = ct,
                              !.raised = TRUE, !.trace = l.trace \o <<RaiseEvent>>]
        ELSE IF r.model_type = "Computer Vision"
        THEN IF ArtifactExists(r.downloaded_path) /\ e.firstOK
             THEN [out EXCEPT !.model = [kind |-> "StableDiffusion"]]
             ELSE [out EXCEPT !.raised = TRUE, !.trace = <<RaiseEvent>>]
        ELSE IF r.model_type = "Multimodal"
        THEN IF r.projector_downloaded_path = Unbound
             THEN [out EXCEPT !.raised = TRUE, !.trace = <<RaiseEvent>>]
             ELSE IF Truthy(r.projector_downloaded_path)
                     /\ ~ArtifactExists(r.projector_downloaded_path)
             THEN [out EXCEPT !.raised = TRUE, !.trace = <<RaiseEvent>>]
             ELSE LET cf == NEXA_RUN_CHAT_TEMPLATE_MAP(g.model_path)
                      l == LlamaWithFallback(r.downloaded_path, e)
                  IN  IF l.ok
                      THEN [out EXCEPT !.chat_format = cf,
                              !.model = [kind |-> "Llama"],
                              !.trace = l.trace]
                      ELSE [out EXCEPT !.chat_format = cf,
                              !.raised = TRUE, !.trace = l.trace \o <<RaiseEvent>>]
        ELSE IF r.model_type = "Audio"
        THEN IF ArtifactExists(r.downloaded_path) /\ e.firstOK
             THEN [out EXCEPT !.model = [kind |-> "WhisperModel"]]
             ELSE [out EXCEPT !.raised = TRUE, !.trace = <<RaiseEvent>>]
        ELSE UnknownKind(out)

(***************************************************************************)
(* Text generation: nexa_run_text_generation, generate_text,               *)
(* chat_completions, _resp_async_generator                                 *)
(***************************************************************************)
\* Longest chunk sequence a producer yields, and longest chat history.
MaxChunks == 2

MaxMsgs == 2

\* Token texts the engine yields, and message / prompt texts clients send.
Tokens == {"a", "b"}

Contents == {"hi", "yo"}

SeqsUpTo(S, n) == UNION {[1..k -> S] : k \in 0..n}

\* One chunk of a producer. create_completion chunks always carry "text";
\* create_chat_completion deltas may lack "content" (the role delta).
Chunk(has, t) == [kind |-> "chunk", has_content |-> has, text |-> t]

NoContentChunk == Chunk(FALSE, "")

Chunks == {Chunk(TRUE, t) : t \in Tokens} \cup {NoContentChunk}

\* A producer as the engine runs it: the chunks it yields and whether it raises
\* after them instead of ending. eager: the engine call itself raises, before any
\* producer exists.
Producers ==
    [chunks : SeqsUpTo(Chunks, MaxChunks), raises : BOOLEAN, eager : {FALSE}]
    \cup {[chunks |-> <<>>, raises |-> TRUE, eager |-> TRUE]}

NoProducer == [chunks |-> <<>>, raises |-> FALSE, eager |-> FALSE]

\* A key of the result dict, met when the dict itself is iterated.
DictKey(k) == [kind |-> "key", has_content |-> TRUE, text |-> k]

\* Methods each handle kind has; calling another one is an AttributeError.
HasMethod(kind, method) ==
    CASE kind = "Llama" -> method \in {"create_completion", "create_chat_completion"}
      [] kind = "StableDiffusion" -> method \in {"txt_to_img", "img_to_img"}
      [] kind = "WhisperModel" -> method \in {"transcribe"}
      [] OTHER -> FALSE

chat_completion_system_prompt ==
    <<[role |-> "system", content |-> "You are a helpful assistant"]>>

\* completion_template.format(input=prompt) for the templates of the model.
FormatTemplate(template, prompt) ==
    CASE template = "Query: {input} Response:" -> "Query: " \o prompt \o " Response:"
      [] OTHER -> template

RECURSIVE ConcatContent(_)
\* generated_text after draining chunks: the contents of those that have one, in order.
ConcatContent(chunks) ==
    IF chunks = <<>> THEN ""
    ELSE (IF Head(chunks).has_content THEN Head(chunks).text ELSE "")
         \o ConcatContent(Tail(chunks))

NoCall == [method |-> "none", prompt |-> "", messages |-> <<>>]

\* What nexa_run_text_generation returns.
TextOut == [raised |-> FALSE, detail |-> "", returns |-> "result", result |-> "",
            streamer |-> <<>>, streamer_raises |-> FALSE, consumed |-> 0, call |-> NoCall]

\* An else branch that sends the prompt as it came, template or not.
CompletionBranch_TemplateDropped(prompt, stream, prod, template) ==
    LET formatted == prompt
        call == [method |-> "create_completion", prompt |-> formatted, messages |-> <<>>]
    IN  IF prod.eager
        THEN [TextOut EXCEPT !.raised = TRUE, !.detail = "engine error", !.call = call]
        ELSE IF prod.raises
        THEN [TextOut EXCEPT !.raised = TRUE, !.detail = "engine error",
                             !.consumed = Len(prod.chunks), !.call = call]
        ELSE [TextOut EXCEPT !.result = ConcatContent(prod.chunks),
                             !.consumed = Len(prod.chunks), !.call = call]

\* The else branch of nexa_run_text_generation (no chat format): the prompt, wrapped
\* by the completion template if there is one, goes to create_completion and the
\* producer is drained whatever stream says.
CompletionBranch(prompt, stream, prod, template) ==
    LET formatted == IF Truthy(template) THEN FormatTemplate(template, prompt) ELSE prompt
        call == [method |-> "create_completion", prompt |-> formatted, messages |-> <<>>]
    IN  IF prod.eager
        THEN [TextOut EXCEPT !.raised = TRUE, !.detail = "engine error", !.call = call]
        ELSE IF prod.raises
        THEN [TextOut EXCEPT !.raised = TRUE, !.detail = "engine error",
                             !.consumed = Len(prod.chunks), !.call = call]
        ELSE [TextOut EXCEPT !.result = ConcatContent(prod.chunks),
                             !.consumed = Len(prod.chunks), !.call = call]

\* The chat-format branch of nexa_run_text_generation: the streamer itself when
\* stream is set, the drained text otherwise.
ChatBranch(prompt, stream, prod, local_or_hf) ==
    LET user == <<[role |-> "user", content |-> prompt]>>
        messages == IF local_or_hf THEN user ELSE chat_completion_system_prompt \o user
        call == [method |-> "create_chat_completion", prompt |-> "", messages |-> messages]
    IN  IF prod.eager
        THEN [TextOut EXCEPT !.raised = TRUE, !.detail = "engine error", !.call = call]
        ELSE IF stream
        THEN [TextOut EXCEPT !.returns = "streamer", !.streamer = prod.chunks,
                             !.streamer_raises = prod.raises, !.call = call]
        ELSE IF prod.raises
        THEN [TextOut EXCEPT !.raised = TRUE, !.detail = "engine error",
                             !.consumed = Len(prod.chunks), !.call = call]
        ELSE [TextOut EXCEPT !.result = ConcatContent(prod.chunks),
                             !.consumed = Len(prod.chunks), !.call = call]

\* nexa_run_text_generation(prompt, ..., stream) against the globals g, with prod the
\* producer the engine hands back.
nexa_run_text_generation(prompt, stream, prod, g) ==
    IF g.model.kind = "None"
    THEN [TextOut EXCEPT !.raised = TRUE, !.detail = "Model is not loaded"]
    ELSE IF Truthy(g.chat_format)
    THEN IF ~HasMethod(g.model.kind, "create_chat_completion")
         THEN [TextOut EXCEPT !.raised = TRUE, !.detail = "AttributeError"]
         ELSE ChatBranch(prompt, stream, prod, g.is_local_path \/ g.is_huggingface)
    ELSE IF ~HasMethod(g.model.kind, "create_completion")
         THEN [TextOut EXCEPT !.raised = TRUE, !.detail = "AttributeError"]
         ELSE CompletionBranch(prompt, stream, prod, g.completion_template)

\* Iterating what the handler passes to _resp_async_generator: a generator yields
\* its chunks, the result dict yields its keys.
StreamUnits(out) ==
    IF out.returns = "streamer" THEN out.streamer
    ELSE <<DictKey("result"), DictKey("logprobs")>>

\* The prompt chat_completions builds from the message list.
ChatPrompt(messages) ==
    IF Len(messages) = 0 THEN "" ELSE messages[Len(messages)].content

\* The handler's response. kind: "json" (200 body), "stream" (StreamingResponse),
\* "http_exception" (HTTPException: structured error with detail), "unhandled"
\* (an exception left the handler: the server's bare 500).
Resp(status, kind, detail, text) ==
    [status |-> status, kind |-> kind, detail |-> detail, text |-> text, data |-> <<>>]

NoResp == Resp(0, "none", "", "")

\* What a handler leaves behind: the response and, for a StreamingResponse, the
\* iterable handed to _resp_async_generator.
HandlerOut(r, out, units, raises) ==
    [resp |-> r, call |-> out.call, consumed |-> out.consumed,
     streamer |-> units, streamer_raises |-> raises,
     rstate |-> IF r.kind = "stream" THEN "streaming" ELSE "done"]

\* The try/except body shared by generate_text and chat_completions, given what
\* nexa_run_text_generation returned or raised.
TextResponse(out, stream) ==
    IF out.raised
    THEN HandlerOut(Resp(500, "http_exception", out.detail, ""), out, <<>>, FALSE)
    ELSE IF stream
    THEN HandlerOut(Resp(200, "stream", "", ""), out, StreamUnits(out),
                    out.returns = "streamer" /\ out.streamer_raises)
    ELSE HandlerOut(Resp(200, "json", "", out.result), out, <<>>, FALSE)

\* POST /v1/completions
generate_text(request, prod, g) ==
    TextResponse(nexa_run_text_generation(request.prompt, request.stream, prod, g),
                 request.stream)

\* POST /v1/chat/completions
chat_completions(request, prod, g) ==
    TextResponse(nexa_run_text_generation(ChatPrompt(request.messages), request.stream,
                                          prod, g),
                 request.stream)

function_call_system_prompt ==
    <<[role |-> "system", content |-> "A chat between a curious user and an artificial intelligence assistant"]>>

\* POST /v1/function-calling: one create_chat_completion call over the whole history.
function_call(request, prod, g) ==
    LET c == [method |-> "create_chat_completion", prompt |-> "",
              messages |-> function_call_system_prompt \o request.messages]
        out == [TextOut EXCEPT !.call = c]
    IN  IF ~HasMethod(g.model.kind, "create_chat_completion")
        THEN HandlerOut(Resp(500, "http_exception", "AttributeError", ""), TextOut, <<>>, FALSE)
        ELSE IF prod.raises
        THEN HandlerOut(Resp(500, "http_exception", "engine error", ""), out, <<>>, FALSE)
        ELSE HandlerOut(Resp(200, "json", "", "tool_call"), out, <<>>, FALSE)

(***************************************************************************)
(* Audio: transcribe_audio, translate_audio                                *)
(***************************************************************************)
\* Most temporary files the filesystem holds at once.
MaxTmp == 1

\* tempfile.NamedTemporaryFile picks a name no existing file has.
FreshTemp(files) == CHOOSE n \in 0..MaxTmp : n \notin files /\ \A m \in 0..MaxTmp : m \notin files => n <= m

RECURSIVE JoinText(_)
\* "".join(segment.text for segment in segments)
JoinText(segs) == IF segs = <<>> THEN "" ELSE Head(segs) \o JoinText(Tail(segs))

AudioOut(r, files, method) ==
    [resp |-> r, tempFiles |-> files,
     call |-> [method |-> method, prompt |-> "", messages |-> <<>>]]

\* The files left when staging raises inside the with block: the file exists,
\* temp_audio_path is unbound, and the finally's os.unlink(temp_audio_path) raises
\* UnboundLocalError without removing anything.
UnlinkOnStagingFailure(files, t) == files \cup {t}

\* The body of transcribe_audio / translate_audio (they differ in the task and the
\* error prefix). upload: whether file.filename is a string and whether reading or
\* writing the payload raises; eng: the segments or the engine's exception.
audio_handler(prefix, upload, eng, g, files) ==
    IF ~upload.filename_ok
    THEN \* os.path.splitext(None) raises before any file exists; the finally then
         \* raises UnboundLocalError in place of the HTTPException
         AudioOut(Resp(500, "unhandled", "UnboundLocalError", ""), files, "none")
    ELSE LET t == FreshTemp(files)
         IN  IF upload.read_fails
             THEN AudioOut(Resp(500, "unhandled", "UnboundLocalError", ""),
                           UnlinkOnStagingFailure(files, t), "none")
             ELSE IF ~HasMethod(g.model.kind, "transcribe")
             THEN AudioOut(Resp(500, "http_exception", prefix \o "AttributeError", ""),
                           (files \cup {t}) \ {t}, "none")
             ELSE IF eng.raises
             THEN AudioOut(Resp(500, "http_exception", prefix \o "engine error", ""),
                           (files \cup {t}) \ {t}, "transcribe")
             ELSE AudioOut(Resp(200, "json", "", JoinText(eng.segments)),
                           (files \cup {t}) \ {t}, "transcribe")

\* POST /v1/audio/transcriptions
transcribe_audio(upload, eng, g, files) ==
    audio_handler("Error during transcription: ", upload, eng, g, files)

\* POST /v1/audio/translations
translate_audio(upload, eng, g, files) ==
    audio_handler("Error during translation: ", upload, eng, g, files)

(***************************************************************************)
(* Images: nexa_run_image_generation, txt2img, img2img                     *)
(***************************************************************************)
\* Most images one engine call returns, the last clock second modelled, and the
\* most files nexa_server_output holds.
MaxImages == 2

MaxClock == 1

MaxOutFiles == 2

\* Images the engine can return.
Pixels == {"imgA", "imgB"}

\* image_path values of requests; InputImages are the ones that exist on disk.
ImagePaths == {"", "  ", "in.png", "missing.png"}

InputImages == {"in.png"}

\* str.strip() on the image paths of the model.
Strip(p) == IF p = "  " THEN "" ELSE p

\* base64.b64encode(bytes).decode("utf-8") of an image file's content.
B64(pixel) == "b64:" \o pixel

\* os.path.join("nexa_server_output", f"{prefix}_{id}.png")
OutPath(prefix, id) == "nexa_server_output/" \o prefix \o "_" \o ToString(id) \o ".png"

ImageGenOut == [raised |-> FALSE, detail |-> "", images |-> <<>>, method |-> "none"]

\* raise ValueError(f"Image file not found: {image_path}"), before the engine is called.
MissingImage ==
    [ImageGenOut EXCEPT !.raised = TRUE, !.detail = "Image file not found"]

\* nexa_run_image_generation: the images the engine generated, or the exception.
nexa_run_image_generation(request, eng, g) ==
    IF g.model.kind = "None"
    THEN [ImageGenOut EXCEPT !.raised = TRUE, !.detail = "Model is not loaded"]
    ELSE IF Truthy(request.image_path) /\ Truthy(Strip(request.image_path))
    THEN IF Strip(request.image_path) \notin InputImages
         THEN MissingImage
         ELSE IF ~HasMethod(g.model.kind, "img_to_img")
         THEN [ImageGenOut EXCEPT !.raised = TRUE, !.detail = "AttributeError"]
         ELSE IF eng.raises
         THEN [ImageGenOut EXCEPT !.raised = TRUE, !.detail = "engine error",
                                  !.method = "img_to_img"]
         ELSE [ImageGenOut EXCEPT !.images = eng.images, !.method = "img_to_img"]
    ELSE IF ~HasMethod(g.model.kind, "txt_to_img")
         THEN [ImageGenOut EXCEPT !.raised = TRUE, !.detail = "AttributeError"]
         ELSE IF eng.raises
         THEN [ImageGenOut EXCEPT !.raised = TRUE, !.detail = "engine error",
                                  !.method = "txt_to_img"]
         ELSE [ImageGenOut EXCEPT !.images = eng.images, !.method = "txt_to_img"]

RECURSIVE SaveLoop_RelativeUrl(_, _, _, _, _)
\* The loop handing out the path as joined, without os.path.abspath.
SaveLoop_RelativeUrl(images, ts, prefix, files, data) ==
    IF images = <<>> THEN [files |-> files, data |-> data]
    ELSE LET path == OutPath(prefix, Head(ts))
             saved == [q \in DOMAIN files \cup {path} |->
                         IF q = path THEN Head(images) ELSE files[q]]
             img == [base64 |-> B64(saved[path]), url |-> path]
         IN  SaveLoop_RelativeUrl(Tail(images), Tail(ts), prefix, saved, Append(data, img))

RECURSIVE SaveLoop(_, _, _, _, _)
\* The for loop of txt2img / img2img: each image is saved under the name of the
\* second it is saved in (ts), read back and base64-encoded.
SaveLoop(images, ts, prefix, files, data) ==
    IF images = <<>> THEN [files |-> files, data |-> data]
    ELSE LET path == OutPath(prefix, Head(ts))
             saved == [q \in DOMAIN files \cup {path} |->
                         IF q = path THEN Head(images) ELSE files[q]]
             img == [base64 |-> B64(saved[path]), url |-> AbsPath(path)]
         IN  SaveLoop(Tail(images), Tail(ts), prefix, saved, Append(data, img))

\* The body of txt2img / img2img (they differ in the file name prefix).
image_handler(prefix, request, eng, ts, g, files) ==
    LET gen == nexa_run_image_generation(request, eng, g)
        c == [method |-> gen.method, prompt |-> "", messages |-> <<>>]
    IN  IF gen.raised
        THEN [resp |-> Resp(500, "http_exception", gen.detail, ""),
              outFiles |-> files, call |-> c]
        ELSE LET l == SaveLoop(gen.images, ts, prefix, files, <<>>)
             IN  [resp |-> [Resp(200, "json", "", "") EXCEPT !.data = l.data],
                  outFiles |-> l.files, call |-> c]

\* POST /v1/txt2img
txt2img(request, eng, ts, g, files) == image_handler("txt2img", request, eng, ts, g, files)

\* POST /v1/img2img
img2img(request, eng, ts, g, files) == image_handler("img2img", request, eng, ts, g, files)

(***************************************************************************)
(* The state machine                                                       *)
(***************************************************************************)
vars == <<phase, args, env, model, chat_format, completion_template, model_path,
          is_local_path, model_type, is_huggingface, projector_path, loadTrace,
          rstate, req, resp, engineCall, streamer, streamerRaises, events, nativeCalls, consumed,
          consumedAtResponse, tempFiles, outFiles, now>>

reqVars == <<rstate, req, resp, engineCall, streamer, streamerRaises, events, nativeCalls, consumed,
             consumedAtResponse, tempFiles, outFiles, now>>

globalVars == <<model, chat_format, completion_template, model_path, is_local_path,
                model_type, is_huggingface, projector_path>>

\* Command lines: the model path argument (none: the default "gemma"), the flags,
\* --model_type, and PROJECTOR_PATH in the environment. --model_type is only given
\* with a flag, the projector only for a local vision-language model.
PathArgs == {NoneVal, "octopus:q4_0", "fcmodel", "sd", "whisper", "nanollava",
             "bogus", "local.gguf", "hf/repo"}

TypeArgs == {NoneVal, "NLP", "Computer Vision", "Audio", "Multimodal", "Text"}

StartArgs ==
    {a \in [model_path_arg : PathArgs, is_local_path_arg : BOOLEAN,
            model_type_arg : TypeArgs, huggingface : BOOLEAN,
            projector_env : {"", "proj.gguf"}] :
        /\ (~a.is_local_path_arg /\ ~a.huggingface) => a.model_type_arg = NoneVal
        /\ a.projector_env /= "" => (a.model_type_arg = "Multimodal" /\ a.is_local_path_arg)
        /\ ~(a.is_local_path_arg /\ a.huggingface)}

NoRequest ==
    [endpoint |-> "none", stream |-> FALSE, prompt |-> "", messages |-> <<>>,
     image_path |-> "", prod |-> NoProducer]

Init ==
    /\ phase = "cli"
    /\ args \in StartArgs
    /\ env = NoEnv
    /\ model = NoModel
    /\ chat_format = NoneVal
    /\ completion_template = NoneVal
    /\ model_path = NoneVal
    /\ is_local_path = FALSE
    /\ model_type = NoneVal
    /\ is_huggingface = FALSE
    /\ projector_path = NoneVal
    /\ loadTrace = <<>>
    /\ rstate = "idle"
    /\ req = NoRequest
    /\ resp = NoResp
    /\ engineCall = NoCall
    /\ streamer = <<>>
    /\ streamerRaises = FALSE
    /\ events = <<>>
    /\ nativeCalls = <<>>
    /\ consumed = 0
    /\ consumedAtResponse = 0
    /\ tempFiles = {}
    /\ outFiles = << >>
    /\ now = 0

\* run_nexa_ai_service up to uvicorn.run: a raise ends the process before the server
\* starts.
RunNexaAiService ==
    /\ phase = "cli"
    /\ LET r == run_nexa_ai_service(args)
       IN  /\ phase' = IF r.raised THEN "failed" ELSE "startup"
           /\ is_local_path' = r.is_local_path
           /\ is_huggingface' = r.is_huggingface
           /\ model_path' = r.model_path
           /\ model_type' = r.model_type
           /\ env' = r.env
    /\ UNCHANGED <<args, model, chat_format, completion_template, projector_path, loadTrace>>
    /\ UNCHANGED reqVars

\* What the engines and the hub do during one load_model call.
LoadOutcomes ==
    [pull_raises : BOOLEAN, gpu_available : BOOLEAN, firstOK : BOOLEAN,
     secondOK : BOOLEAN, meta_template : {NoneVal, "{{ messages }}"}]

\* startup_event: read the configuration from the environment, then load_model. An
\* exception fails the application start-up and the server exits.
StartupEvent ==
    /\ phase = "startup"
    /\ \E e \in LoadOutcomes :
        LET g == [model |-> model, chat_format |-> chat_format,
                  completion_template |-> completion_template,
                  model_path |-> env.MODEL_PATH,
                  is_local_path |-> PyLower(env.IS_LOCAL_PATH) = "true",
                  model_type |-> env.MODEL_TYPE,
                  is_huggingface |-> PyLower(env.HUGGINGFACE) = "true",
                  projector_path |-> args.projector_env]
            r == load_model(g, e)
        IN  /\ model_path' = g.model_path
            /\ is_local_path' = g.is_local_path
            /\ is_huggingface' = g.is_huggingface
            /\ projector_path' = g.projector_path
            /\ model_type' = r.model_type
            /\ model' = r.model
            /\ chat_format' = r.chat_format
            /\ completion_template' = r.completion_template
            /\ loadTrace' = r.trace
            /\ phase' = IF r.raised THEN "failed" ELSE "loaded"
    /\ UNCHANGED <<args, env>>
    /\ UNCHANGED reqVars

\* Start-up completed: the server binds its socket and starts serving. The log
\* lines of the load are behind it.
ServerReady ==
    /\ phase = "loaded"
    /\ phase' = "ready"
    /\ loadTrace' = <<>>
    /\ UNCHANGED <<args, env>>
    /\ UNCHANGED globalVars
    /\ UNCHANGED reqVars

Globals ==
    [model |-> model, chat_format |-> chat_format,
     completion_template |-> completion_template, model_path |-> model_path,
     is_local_path |-> is_local_path, model_type |-> model_type,
     is_huggingface |-> is_huggingface, projector_path |-> projector_path]

\* A server that goes on to serve after its startup event failed.
CanAdmit_AfterFailedLoad == phase \in {"ready", "failed"} /\ rstate = "idle"

\* The server admits requests once start-up has completed; the model keeps one
\* request in hand at a time.
CanAdmit == phase = "ready" /\ rstate = "idle"

\* The producers the engine can hand to a text handler: none when the handler never
\* reaches the engine, content-only chunks from create_completion.
ProducersFor(method) ==
    CASE method = "none" -> {NoProducer}
      [] method = "create_completion" ->
            {p \in Producers : \A i \in 1..Len(p.chunks) : p.chunks[i].has_content}
      [] OTHER -> Producers

Admit(request, h) ==
    /\ req' = request
    /\ resp' = h.resp
    /\ engineCall' = h.call
    /\ streamer' = h.streamer
    /\ streamerRaises' = h.streamer_raises
    /\ events' = <<>>
    /\ nativeCalls' = <<>>
    /\ consumed' = h.consumed
    /\ consumedAtResponse' = h.consumed
    /\ rstate' = h.rstate

GenerateText ==
    /\ CanAdmit
    /\ \E prompt \in Contents, stream \in BOOLEAN :
        LET r0 == [NoRequest EXCEPT !.endpoint = "/v1/completions", !.prompt = prompt,
                                    !.stream = stream]
            probe == generate_text(r0, NoProducer, Globals)
        IN  \E prod \in ProducersFor(probe.call.method) :
                Admit([r0 EXCEPT !.prod = prod], generate_text(r0, prod, Globals))
    /\ UNCHANGED <<tempFiles, outFiles, now>>
    /\ UNCHANGED startVars

ChatCompletions ==
    /\ CanAdmit
    /\ \E contents \in SeqsUpTo(Contents, MaxMsgs), stream \in BOOLEAN :
        LET msgs == [i \in 1..Len(contents) |-> [role |-> "user", content |-> contents[i]]]
            r0 == [NoRequest EXCEPT !.endpoint = "/v1/chat/completions",
                                    !.messages = msgs, !.stream = stream]
            probe == chat_completions(r0, NoProducer, Globals)
        IN  \E prod \in ProducersFor(probe.call.method) :
                Admit([r0 EXCEPT !.prod = prod], chat_completions(r0, prod, Globals))
    /\ UNCHANGED <<tempFiles, outFiles, now>>
    /\ UNCHANGED startVars

FunctionCall ==
    /\ CanAdmit
    /\ \E contents \in SeqsUpTo(Contents, MaxMsgs) :
        LET msgs == [i \in 1..Len(contents) |-> [role |-> "user", content |-> contents[i]]]
            r0 == [NoRequest EXCEPT !.endpoint = "/v1/function-calling", !.messages = msgs]
            probe == function_call(r0, NoProducer, Globals)
        IN  \E raises \in (IF probe.call.method = "none" THEN {FALSE} ELSE BOOLEAN) :
                LET prod == [NoProducer EXCEPT !.raises = raises, !.eager = raises]
                IN  Admit([r0 EXCEPT !.prod = prod], function_call(r0, prod, Globals))
    /\ UNCHANGED <<tempFiles, outFiles, now>>
    /\ UNCHANGED startVars

DataEvent(unit) == [type |-> "data", content |-> unit]

DoneEvent == [type |-> "[DONE]", content |-> DictKey("")]

\* A generator that ends at exhaustion without yielding the sentinel.
resp_async_generator_NoSentinel(units, raises) ==
    IF units /= <<>>
    THEN [yield |-> <<DataEvent(Head(units))>>, rest |-> Tail(units), ended |-> "no"]
    ELSE IF raises
    THEN [yield |-> <<>>, rest |-> units, ended |-> "aborted"]
    ELSE [yield |-> <<>>, rest |-> units, ended |-> "done"]

\* One resumption of _resp_async_generator by the server writing the response: take
\* the next unit of the streamer and yield its data event, or at exhaustion yield
\* the sentinel; a producer that raises ends the generator with neither.
resp_async_generator(units, raises) ==
    IF units /= <<>>
    THEN [yield |-> <<DataEvent(Head(units))>>, rest |-> Tail(units), ended |-> "no"]
    ELSE IF raises
    THEN [yield |-> <<>>, rest |-> units, ended |-> "aborted"]
    ELSE [yield |-> <<DoneEvent>>, rest |-> units, ended |-> "done"]

StreamNext ==
    /\ phase = "ready"
    /\ rstate = "streaming"
    /\ LET step == resp_async_generator(streamer, streamerRaises)
       IN  /\ events' = events \o step.yield
           /\ streamer' = step.rest
           /\ rstate' = IF step.ended = "no" THEN "streaming" ELSE step.ended
           /\ consumed' = IF streamer /= <<>> /\ Head(streamer).kind = "chunk"
                          THEN consumed + 1 ELSE consumed
    /\ UNCHANGED <<req, resp, engineCall, streamerRaises, consumedAtResponse, tempFiles,
                   outFiles, now, nativeCalls>>
    /\ UNCHANGED startVars

\* Uploads and engine results of the audio endpoints.
Uploads == [filename_ok : BOOLEAN, read_fails : BOOLEAN]

Transcriptions ==
    [raises : {FALSE}, segments : {<<>>, <<"a">>, <<"a", "b">>}]
    \cup {[raises |-> TRUE, segments |-> <<>>]}

\* The engine's outcome as the request records it: kept only if the engine was called.
EngineOutcome(method, raises) ==
    IF method = "none" THEN NoProducer
    ELSE [NoProducer EXCEPT !.raises = raises, !.eager = raises]

AdmitAudio(endpoint, eng, h) ==
    /\ req' = [NoRequest EXCEPT !.endpoint = endpoint,
                                !.prod = EngineOutcome(h.call.method, eng.raises)]
    /\ resp' = h.resp
    /\ engineCall' = h.call
    /\ tempFiles' = h.tempFiles
    /\ rstate' = "done"
    /\ streamer' = <<>>
    /\ streamerRaises' = FALSE
    /\ events' = <<>>
    /\ nativeCalls' = <<>>
    /\ consumed' = 0
    /\ consumedAtResponse' = 0

TranscribeAudio ==
    /\ CanAdmit
    /\ Cardinality(tempFiles) < MaxTmp
    /\ \E upload \in Uploads, eng \in Transcriptions :
        AdmitAudio("/v1/audio/transcriptions", eng,
                   transcribe_audio(upload, eng, Globals, tempFiles))
    /\ UNCHANGED <<outFiles, now>>
    /\ UNCHANGED startVars

TranslateAudio ==
    /\ CanAdmit
    /\ Cardinality(tempFiles) < MaxTmp
    /\ \E upload \in Uploads, eng \in Transcriptions :
        AdmitAudio("/v1/audio/translations", eng,
                   translate_audio(upload, eng, Globals, tempFiles))
    /\ UNCHANGED <<outFiles, now>>
    /\ UNCHANGED startVars

\* Engine results of the image endpoints, and the seconds at which the images of one
\* response are saved: the clock may have moved on since the last request, and never
\* goes back.
Generations ==
    [raises : {FALSE}, images : UNION {[1..k -> Pixels] : k \in 1..MaxImages}]
    \cup {[raises |-> TRUE, images |-> <<>>]}

SaveTimes(n) ==
    {ts \in [1..n -> now..MaxClock] : \A i \in 1..n : \A j \in 1..n : i <= j => ts[i] <= ts[j]}

AdmitImage(request, eng, h, ts) ==
    /\ req' = [request EXCEPT !.prod =
                 [images |-> IF h.call.method = "none" \/ eng.raises THEN <<>>
                             ELSE eng.images]
                 @@ EngineOutcome(h.call.method, eng.raises)]
    /\ resp' = h.resp
    /\ engineCall' = h.call
    /\ outFiles' = h.outFiles
    /\ Cardinality(DOMAIN h.outFiles) <= MaxOutFiles
    /\ now' = IF h.resp.status = 200 /\ Len(ts) > 0 THEN ts[Len(ts)] ELSE now
    /\ rstate' = "done"
    /\ streamer' = <<>>
    /\ streamerRaises' = FALSE
    /\ events' = <<>>
    /\ nativeCalls' = <<>>
    /\ consumed' = 0
    /\ consumedAtResponse' = 0

Txt2Img ==
    /\ CanAdmit
    /\ \E path \in ImagePaths, eng \in Generations :
        LET request == [NoRequest EXCEPT !.endpoint = "/v1/txt2img", !.image_path = path]
        IN  /\ nexa_run_image_generation(request, eng, Globals).method = "none"
                => eng.raises
            /\ \E ts \in SaveTimes(Len(eng.images)) :
                 AdmitImage(request, eng, txt2img(request, eng, ts, Globals, outFiles), ts)
    /\ UNCHANGED tempFiles
    /\ UNCHANGED startVars

Img2Img ==
    /\ CanAdmit
    /\ \E path \in ImagePaths, eng \in Generations :
        LET request == [NoRequest EXCEPT !.endpoint = "/v1/img2img", !.image_path = path]
        IN  /\ nexa_run_image_generation(request, eng, Globals).method = "none"
                => eng.raises
            /\ \E ts \in SaveTimes(Len(eng.images)) :
                 AdmitImage(request, eng, img2img(request, eng, ts, Globals, outFiles), ts)
    /\ UNCHANGED tempFiles
    /\ UNCHANGED startVars

(***************************************************************************)
(* Image embeddings of a vision-language handle (llava_cpp entry points)   *)
(***************************************************************************)
\* Most images one chat request carries.
MaxEmbeds == 2

\* A call of a llava_cpp entry point with what it returned.
NativeCall(fn, ret) == [fn |-> fn, ret |-> ret]

\* What becomes of one image: the embedding is not built (null pointer), it is
\* evaluated, or the evaluation fails.
EmbedOutcomes == {"no_embed", "evaluated", "eval_failed"}

RECURSIVE EvalImages(_)
\* The images of a request in order: llava_image_embed_make_with_bytes,
\* llava_eval_image_embed, llava_image_embed_free; the flow ends at the first image
\* that fails.
EvalImages(outcomes) ==
    IF outcomes = <<>> THEN <<>>
    ELSE LET o == Head(outcomes)
             make == NativeCall("llava_image_embed_make_with_bytes", o /= "no_embed")
             eval == NativeCall("llava_eval_image_embed", o = "evaluated")
             free == NativeCall("llava_image_embed_free", TRUE)
         IN  IF o = "no_embed" THEN <<make>>
             ELSE IF o = "eval_failed" THEN <<make, eval, free>>
             ELSE <<make, eval, free>> \o EvalImages(Tail(outcomes))

\* A flow that checks the embedding size and evaluates the images whatever the
\* check returned.
LlavaImageFlow_IgnoreValidation(size_ok, outcomes) ==
    <<NativeCall("llava_validate_embed_size", size_ok)>> \o EvalImages(outcomes)

\* The flow of a request with images on a vision-language handle:
\* llava_validate_embed_size on the two contexts first; a mismatch is a caller error
\* and ends the flow, otherwise the images are evaluated.
LlavaImageFlow(size_ok, outcomes) ==
    IF outcomes = <<>> THEN <<>>
    ELSE IF ~size_ok THEN <<NativeCall("llava_validate_embed_size", FALSE)>>
    ELSE <<NativeCall("llava_validate_embed_size", TRUE)>> \o EvalImages(outcomes)

\* Whether the flow ended in an error.
LlavaFlowFailed(calls) == \E i \in 1..Len(calls) : calls[i].ret = FALSE

\* A chat request with images served by a vision-language handle (a projector is
\* bound to it).
LlavaChat ==
    /\ CanAdmit
    /\ model.kind = "Llama"
    /\ model_type = "Multimodal"
    /\ \E size_ok \in BOOLEAN, outcomes \in SeqsUpTo(EmbedOutcomes, MaxEmbeds) :
        LET calls == LlavaImageFlow(size_ok, outcomes)
        IN  /\ outcomes /= <<>>
            /\ nativeCalls' = calls
            /\ req' = [NoRequest EXCEPT !.endpoint = "llava chat handler"]
            /\ resp' = IF LlavaFlowFailed(calls)
                       THEN Resp(500, "http_exception", "llava error", "")
                       ELSE Resp(200, "json", "", "")
    /\ rstate' = "done"
    /\ UNCHANGED <<engineCall, streamer, streamerRaises, events, consumed,
                   consumedAtResponse, tempFiles, outFiles, now>>
    /\ UNCHANGED startVars

\* The response has left the server (or the stream was cut): nothing of the request
\* stays in the process but the files it left.
Finish ==
    /\ phase = "ready"
    /\ rstate \in {"done", "aborted"}
    /\ rstate' = "idle"
    /\ req' = NoRequest
    /\ resp' = NoResp
    /\ engineCall' = NoCall
    /\ streamer' = <<>>
    /\ streamerRaises' = FALSE
    /\ events' = <<>>
    /\ nativeCalls' = <<>>
    /\ consumed' = 0
    /\ consumedAtResponse' = 0
    /\ UNCHANGED <<tempFiles, outFiles, now>>
    /\ UNCHANGED startVars

Next ==
    \/ RunNexaAiService
    \/ StartupEvent
    \/ ServerReady
    \/ GenerateText
    \/ ChatCompletions
    \/ FunctionCall
    \/ StreamNext
    \/ TranscribeAudio
    \/ TranslateAudio
    \/ Txt2Img
    \/ Img2Img
    \/ LlavaChat
    \/ Finish

Spec == Init /\ [][Next]_vars

(***************************************************************************)
(* Non-streaming text requests with log-probabilities                      *)
(***************************************************************************)
\* Field names of a chunk's "logprobs" dict.
LogprobFields == {"tokens", "token_logprobs"}

\* chunk["choices"][0] without a "logprobs" key.
NoLogprobs == [present |-> FALSE, dict |-> << >>]

\* The "logprobs" dict of the chunk at position i with the fields K: each field's
\* list holds the entry of that chunk.
ChunkLogprobs(i, K) == [present |-> TRUE, dict |-> [k \in K |-> <<i>>]]

\* What the n chunks of a producer carry as log-probabilities: for each chunk the
\* fields of its dict, none standing for a chunk without "logprobs".
LogprobSeqs(n) ==
    {[i \in 1..n |-> IF ks[i] = {} THEN NoLogprobs ELSE ChunkLogprobs(i, ks[i])] :
        ks \in [1..n -> SUBSET LogprobFields]}

RECURSIVE MergeLogprobs(_, _)
\* The loop over the chunks as it maintains logprobs_or_none (acc): the first dict
\* met becomes the accumulator, later ones extend the lists of the accumulator's
\* keys.
MergeLogprobs(acc, lps) ==
    IF lps = <<>> THEN acc
    ELSE LET c == Head(lps)
         IN  IF ~c.present THEN MergeLogprobs(acc, Tail(lps))
             ELSE IF ~acc.present THEN MergeLogprobs(c, Tail(lps))
             ELSE MergeLogprobs(
                    [present |-> TRUE,
                     dict |-> [k \in DOMAIN acc.dict |->
                                IF k \in DOMAIN c.dict THEN acc.dict[k] \o c.dict[k]
                                ELSE acc.dict[k]]],
                    Tail(lps))

\* result["logprobs"]: None unless the request asks for log-probabilities.
LogprobsOrNone(logprobs, lps) ==
    IF logprobs THEN MergeLogprobs(NoLogprobs, lps) ELSE NoLogprobs

\* The JSON body of a text handler with its "logprobs" member.
WithLogprobs(h, logprobs, lps) ==
    IF h.resp.kind = "json"
    THEN [h EXCEPT !.resp = [logprobs |-> LogprobsOrNone(logprobs, lps)] @@ h.resp]
    ELSE h

\* The globals as startup_event leaves them for load_model: the configuration read
\* from the environment, no handle yet.
StartupGlobals ==
    [model |-> NoModel, chat_format |-> NoneVal, completion_template |-> NoneVal,
     model_path |-> env.MODEL_PATH,
     is_local_path |-> PyLower(env.IS_LOCAL_PATH) = "true",
     model_type |-> env.MODEL_TYPE,
     is_huggingface |-> PyLower(env.HUGGINGFACE) = "true",
     projector_path |-> args.projector_env]

\* A service that has come up with a text model of the hub and is idle.
InitLogprobs ==
    /\ phase = "ready"
    /\ args \in {a \in StartArgs : /\ ~a.is_local_path_arg /\ ~a.huggingface
                                   /\ a.model_path_arg \in {NoneVal, "octopus:q4_0"}}
    /\ env = run_nexa_ai_service(args).env
    /\ \E e \in LoadOutcomes :
        LET g == StartupGlobals
            r == load_model(g, e)
        IN  /\ ~r.raised
            /\ model_path = g.model_path
            /\ is_local_path = g.is_local_path
            /\ is_huggingface = g.is_huggingface
            /\ projector_path = g.projector_path
            /\ model_type = r.model_type
            /\ model = r.model
            /\ chat_format = r.chat_format
            /\ completion_template = r.completion_template
    /\ loadTrace = <<>>
    /\ rstate = "idle"
    /\ req = NoRequest
    /\ resp = NoResp
    /\ engineCall = NoCall
    /\ streamer = <<>>
    /\ streamerRaises = FALSE
    /\ events = <<>>
    /\ nativeCalls = <<>>
    /\ consumed = 0
    /\ consumedAtResponse = 0
    /\ tempFiles = {}
    /\ outFiles = << >>
    /\ now = 0

\* generate_text for a request with stream unset, with its logprobs flag.
GenerateTextLogprobs ==
    /\ CanAdmit
    /\ \E prompt \in Contents, logprobs \in BOOLEAN :
        LET r0 == [logprobs |-> logprobs] @@
                  [NoRequest EXCEPT !.endpoint = "/v1/completions", !.prompt = prompt]
            probe == generate_text(r0, NoProducer, Globals)
        IN  \E prod \in ProducersFor(probe.call.method) :
            \E lp \in LogprobSeqs(Len(prod.chunks)) :
                LET p == [lp |-> lp] @@ prod
                IN  Admit([r0 EXCEPT !.prod = p],
                          WithLogprobs(generate_text(r0, p, Globals), logprobs, lp))
    /\ UNCHANGED <<tempFiles, outFiles, now>>
    /\ UNCHANGED startVars

\* chat_completions for a request with stream unset, with its logprobs flag.
ChatCompletionsLogprobs ==
    /\ CanAdmit
    /\ \E contents \in SeqsUpTo(Contents, MaxMsgs), logprobs \in BOOLEAN :
        LET msgs == [i \in 1..Len(contents) |-> [role |-> "user", content |-> contents[i]]]
            r0 == [logprobs |-> logprobs] @@
                  [NoRequest EXCEPT !.endpoint = "/v1/chat/completions",
                                    !.messages = msgs]
            probe == chat_completions(r0, NoProducer, Globals)
        IN  \E prod \in ProducersFor(probe.call.method) :
            \E lp \in LogprobSeqs(Len(prod.chunks)) :
                LET p == [lp |-> lp] @@ prod
                IN  Admit([r0 EXCEPT !.prod = p],
                          WithLogprobs(chat_completions(r0, p, Globals), logprobs, lp))
    /\ UNCHANGED <<tempFiles, outFiles, now>>
    /\ UNCHANGED startVars

NextLogprobs ==
    \/ GenerateTextLogprobs
    \/ ChatCompletionsLogprobs
    \/ Finish

SpecLogprobs == InitLogprobs /\ [][NextLogprobs]_vars

(***************************************************************************)
(* Properties                                                              *)
(***************************************************************************)
TextEndpoints == {"/v1/completions", "/v1/chat/completions"}

AudioEndpoints == {"/v1/audio/transcriptions", "/v1/audio/translations"}

ImageEndpoints == {"/v1/txt2img", "/v1/img2img"}

\* The text handler of the request's endpoint, run on request r with producer p.
TextHandlerOf(r, p) ==
    IF r.endpoint = "/v1/completions" THEN generate_text(r, p, Globals)
    ELSE chat_completions(r, p, Globals)

\* Whether string t occurs in string s.
Contains(s, t) == \E i \in 0..(Len(s) - Len(t)) : SubSeq(s, i + 1, i + Len(t)) = t

RECURSIVE EventsContent(_)
\* The content the data events carry, concatenated in order, the sentinel left out.
EventsContent(evs) ==
    IF evs = <<>> THEN ""
    ELSE (IF Head(evs).type = "data" /\ Head(evs).content.has_content
          THEN Head(evs).content.text ELSE "")
         \o EventsContent(Tail(evs))

\* C1: for a text request whose stream has ended with the sentinel, the content of
\* its data events, concatenated in order, equals the text the same request and
\* producer give with stream=false.
C1_StreamEqualsDrained ==
    (rstate = "done" /\ resp.kind = "stream" /\ req.endpoint \in TextEndpoints) =>
        LET drained == TextHandlerOf([req EXCEPT !.stream = FALSE], req.prod).resp
        IN  drained.kind = "json" => EventsContent(events) = drained.text

\* C2: once transcribe_audio or translate_audio has ended, by whichever exit path, no
\* temporary audio file is left on the filesystem.
C2_TempFileRemoved ==
    (rstate = "done" /\ req.endpoint \in AudioEndpoints) => tempFiles = {}

\* C3: a text request against an Audio or Diffusion handle is answered with a
\* kind-mismatch validation error: the handle's generation entry point is not
\* invoked, the handler's exception does not go unhandled, and the status is not 5xx.
C3_KindMismatchIsValidationError ==
    (rstate = "done" /\ req.endpoint \in TextEndpoints
        /\ model.kind \in {"WhisperModel", "StableDiffusion"}) =>
        /\ engineCall.method = "none"
        /\ resp.kind = "http_exception"
        /\ resp.status \in 400..499

\* Positions of the Llama constructions in the trace of the load.
LlamaAttempts == {i \in 1..Len(loadTrace) : loadTrace[i].ev = "Llama"}

FirstAttempt == CHOOSE i \in LlamaAttempts : \A j \in LlamaAttempts : i <= j

FirstAttemptRaised ==
    /\ LlamaAttempts /= {}
    /\ FirstAttempt < Len(loadTrace)
    /\ loadTrace[FirstAttempt + 1] = ExcEvent

\* C4: in load_model, when the first Llama construction raises, the fallback message
\* is logged next, then exactly one further construction is attempted, with
\* n_gpu_layers=0, and nothing is constructed after it; when the first construction
\* succeeds there is no other.
C4_OneCpuFallback ==
    /\ Cardinality(LlamaAttempts) <= 2
    /\ FirstAttemptRaised =>
        /\ Len(loadTrace) >= FirstAttempt + 3
        /\ loadTrace[FirstAttempt + 2] = LogError
        /\ loadTrace[FirstAttempt + 3] = LlamaEvent(0)
        /\ LlamaAttempts = {FirstAttempt, FirstAttempt + 3}
    /\ (LlamaAttempts /= {} /\ ~FirstAttemptRaised) => Cardinality(LlamaAttempts) = 1

\* C4 witness: a load whose first construction raised and whose CPU construction
\* succeeded.
C4_Witness ==
    /\ phase = "loaded"
    /\ FirstAttemptRaised
    /\ model.kind = "Llama"

\* The units the handler handed to _resp_async_generator for the request in hand.
UnitsHandedOver == TextHandlerOf(req, req.prod).streamer

\* C5: the events emitted so far are the data events of the units consumed so far,
\* one per unit in producer order; the sentinel comes only when the producer is
\* exhausted, once, as the last event, and a stream that has ended normally has
\* emitted every unit's event and then the sentinel.
C5_OneEventPerUnitThenDone ==
    (resp.kind = "stream" /\ req.endpoint \in TextEndpoints) =>
        LET units == UnitsHandedOver
            k == Len(units) - Len(streamer)
            sent == {i \in 1..Len(events) : events[i] = DoneEvent}
        IN  /\ k >= 0
            /\ Len(events) >= k
            /\ \A i \in 1..k : events[i] = DataEvent(units[i])
            /\ \A i \in (k + 1)..Len(events) : events[i] = DoneEvent
            /\ Cardinality(sent) <= 1
            /\ sent /= {} => (streamer = <<>> /\ rstate = "done")
            /\ (rstate = "done") => (k = Len(units) /\ Len(events) = k + 1)

\* C5 witness: a stream of two units that has ended with the sentinel.
C5_Witness ==
    /\ rstate = "done"
    /\ resp.kind = "stream"
    /\ Len(events) = 3
    /\ events[3] = DoneEvent
    /\ events[1] /= events[2]

\* C6: a handler that answers with an open stream has consumed nothing from the
\* model producer when it answers.
C6_StreamOpensBeforeConsuming ==
    (resp.kind = "stream" /\ req.endpoint \in TextEndpoints) => consumedAtResponse = 0

\* C7: when the model handle raised while the request was served, the request ends
\* in a 5xx structured error that carries the message.
C7_EngineErrorIs5xx ==
    (rstate \in {"done", "aborted"} /\ engineCall.method /= "none" /\ req.prod.raises) =>
        /\ resp.kind = "http_exception"
        /\ resp.status \in 500..599
        /\ resp.detail /= ""

\* C8: an image request to a Diffusion handle whose image_path names a file that
\* does not exist is answered with a 4xx structured error and the engine is not
\* called for it.
C8_InvalidRequestIs4xx ==
    (rstate = "done" /\ req.endpoint \in ImageEndpoints
        /\ model.kind = "StableDiffusion"
        /\ Strip(req.image_path) /= "" /\ Strip(req.image_path) \notin InputImages) =>
        /\ engineCall.method = "none"
        /\ resp.kind = "http_exception"
        /\ resp.status \in 400..499

\* The command line is one run_nexa_ai_service must refuse.
InvalidCommandLine ==
    \/ (args.is_local_path_arg \/ args.huggingface) /\ ~Truthy(args.model_path_arg)
    \/ args.is_local_path_arg /\ ~Truthy(args.model_type_arg)

\* The model identifier of the command line names an artifact that can be had.
IdentifierResolves ==
    LET id == IF Truthy(args.model_path_arg) THEN args.model_path_arg ELSE "gemma"
    IN  IF args.is_local_path_arg THEN AbsPath(id) \in LocalFiles
        ELSE IF args.huggingface /\ args.model_type_arg /= "Multimodal" THEN id \in HfIds
        ELSE id \in HubIds

KnownKinds == {"NLP", "Computer Vision", "Multimodal", "Audio"}

\* C9: the service is ready, or a handler has run, only if the command line was
\* valid, the model identifier resolved and the model kind is a known one; then a
\* handle is loaded.
C9_NoServiceOnBadStartup ==
    (phase = "ready" \/ rstate /= "idle") =>
        /\ ~InvalidCommandLine
        /\ IdentifierResolves
        /\ model_type \in KnownKinds
        /\ model.kind /= "None"

\* C9 witness: a process that has come up and answered a request.
C9_Witness ==
    /\ phase = "ready"
    /\ rstate = "done"
    /\ resp.status = 200

\* What the generation call was given: the prompt, or the message contents.
CallPayload ==
    IF engineCall.method = "create_completion" THEN <<engineCall.prompt>>
    ELSE [i \in 1..Len(engineCall.messages) |-> engineCall.messages[i].content]

\* C10: the prompt handed to the generation call of a chat request carries the
\* content of every message of the request.
C10_PromptFromWholeHistory ==
    (req.endpoint = "/v1/chat/completions" /\ engineCall.method /= "none") =>
        \A i \in 1..Len(req.messages) :
            \E j \in 1..Len(CallPayload) :
                Contains(CallPayload[j], req.messages[i].content)

RECURSIVE ConcatField(_, _)
\* The lists of field k over the chunks that carry it, concatenated in order.
ConcatField(lps, k) ==
    IF lps = <<>> THEN <<>>
    ELSE (IF Head(lps).present /\ k \in DOMAIN Head(lps).dict
          THEN Head(lps).dict[k] ELSE <<>>)
         \o ConcatField(Tail(lps), k)

\* C11: a non-streaming text request with logprobs enabled that is answered has
\* drained its producer, and for every field name some chunk carries, the list in
\* the response is the concatenation of that field's lists over the chunks in order.
C11_LogprobsMergedPerField ==
    (rstate = "done" /\ resp.kind = "json" /\ req.endpoint \in TextEndpoints
        /\ req.logprobs) =>
        /\ consumed = Len(req.prod.chunks)
        /\ \A i \in 1..Len(req.prod.lp) : \A k \in DOMAIN req.prod.lp[i].dict :
              /\ resp.logprobs.present
              /\ k \in DOMAIN resp.logprobs.dict
              /\ resp.logprobs.dict[k] = ConcatField(req.prod.lp, k)

\* The globals a handler reads are those one load_model call, run to its end on the
\* start-up configuration, has assigned.
FromOneCompletedLoad ==
    \E e \in LoadOutcomes :
        LET r == load_model(StartupGlobals, e)
        IN  /\ ~r.raised
            /\ model = r.model
            /\ chat_format = r.chat_format
            /\ completion_template = r.completion_template

\* A load that raised after it had written some of the globals.
PartlyLoaded ==
    /\ phase = "failed"
    /\ model = NoModel
    /\ chat_format /= NoneVal \/ completion_template /= NoneVal

\* C12: whenever a handler can run or has run, model, chat_format and
\* completion_template all come from one completed load_model call and the handle
\* is set; while the process is starting, or after a load failed part-way, no
\* handler runs; and no handler changes any of the three.
C12_HandleNeverPartlyReplaced ==
    /\ (phase = "ready") => (FromOneCompletedLoad /\ model /= NoModel)
    /\ (phase /= "ready") => (rstate = "idle" /\ resp = NoResp)

\* C12 witness: a handler has answered from a handle loaded with a chat format.
C12_Witness ==
    /\ phase = "ready"
    /\ rstate = "done"
    /\ resp.status = 200
    /\ model.kind = "Llama"
    /\ Truthy(chat_format)

\* Whether string s starts with string t.
StartsWith(s, t) == Len(s) >= Len(t) /\ SubSeq(s, 1, Len(t)) = t

\* The output directory as an absolute path.
OutputDir == AbsPath("nexa_server_output") \o "/"

\* C13: a txt2img request whose engine call completed is answered with one entry
\* per generated image, at least one; each entry has the non-empty base64 of its
\* image and a url that is an absolute path inside nexa_server_output.
C13_Txt2ImgEntries ==
    (rstate = "done" /\ req.endpoint = "/v1/txt2img"
        /\ engineCall.method /= "none" /\ ~req.prod.raises) =>
        /\ resp.kind = "json"
        /\ Len(resp.data) = Len(req.prod.images)
        /\ Len(resp.data) >= 1
        /\ \A i \in 1..Len(resp.data) :
              /\ resp.data[i].base64 /= ""
              /\ resp.data[i].base64 = B64(req.prod.images[i])
              /\ StartsWith(resp.data[i].url, "/")
              /\ StartsWith(resp.data[i].url, OutputDir)
              /\ Len(resp.data[i].url) > Len(OutputDir)

\* C13 witness: a txt2img answer with two entries.
C13_Witness ==
    /\ rstate = "done"
    /\ req.endpoint = "/v1/txt2img"
    /\ resp.kind = "json"
    /\ Len(resp.data) = 2
    /\ engineCall.method = "txt_to_img"

\* Positions of the calls of entry point fn in the flow of the request in hand.
CallsOf(fn) == {i \in 1..Len(nativeCalls) : nativeCalls[i].fn = fn}

\* C14: in a flow that evaluates an image embedding, llava_validate_embed_size has
\* been called before every llava_eval_image_embed, and a flow in which it returned
\* false has no call of llava_eval_image_embed.
C14_ValidateBeforeEval ==
    /\ \A i \in CallsOf("llava_eval_image_embed") :
          \E j \in CallsOf("llava_validate_embed_size") : j < i
    /\ (\E j \in CallsOf("llava_validate_embed_size") : ~nativeCalls[j].ret) =>
          CallsOf("llava_eval_image_embed") = {}

\* C14 witness: a flow whose size check passed and that evaluated two embeddings.
C14_Witness ==
    /\ rstate = "done"
    /\ Cardinality(CallsOf("llava_eval_image_embed")) = 2
    /\ \A j \in CallsOf("llava_validate_embed_size") : nativeCalls[j].ret

\* startup_event has run: load_model returned, or raised.
AfterStartup ==
    \/ phase \in {"loaded", "ready"}
    \/ phase = "failed" /\ loadTrace /= <<>>

\* model_path, is_local_path, is_huggingface and projector_path hold what
\* startup_event read from the environment.
FourAsRead ==
    /\ model_path = StartupGlobals.model_path
    /\ is_local_path = StartupGlobals.is_local_path
    /\ is_huggingface = StartupGlobals.is_huggingface
    /\ projector_path = StartupGlobals.projector_path

\* C15: after startup_event, at any point of any sequence of requests, the five
\* configuration globals hold the values startup_event read from the environment.
C15_ConfigNeverRewritten ==
    AfterStartup => (FourAsRead /\ model_type = StartupGlobals.model_type)

\* C15 as amended: the four other globals hold the values read; model_type holds
\* the value read, or, for a model resolved through the hub (neither flag set, not
\* read as Multimodal), the kind pull_model returned to load_model.
C15_ConfigFixedButHubKind ==
    AfterStartup =>
        /\ FourAsRead
        /\ \/ model_type = StartupGlobals.model_type
           \/ /\ ~is_local_path /\ ~is_huggingface
              /\ StartupGlobals.model_type /= "Multimodal"
              /\ model_type = pull_model(model_path, FALSE, FALSE).run_type

\* C15 witness: load_model replaced the model type read from the environment and a
\* request has been answered since.
C15_Witness ==
    /\ phase = "ready"
    /\ rstate = "done"
    /\ StartupGlobals.model_type = ""
    /\ model_type = "NLP"

\* The prompt the text handler of the request in hand gave to
\* nexa_run_text_generation.
HandlerPrompt ==
    IF req.endpoint = "/v1/completions" THEN req.prompt ELSE ChatPrompt(req.messages)

\* C16: when a text handler has called the engine, then with a chat format in
\* effect the prompt went unwrapped as the user message of a chat call; with no
\* chat format and a completion template set it went to the completion call wrapped
\* in the template; with neither it went to the completion call unchanged.
C16_TemplateOnlyWithoutChatFormat ==
    (rstate /= "idle" /\ req.endpoint \in TextEndpoints /\ engineCall.method /= "none") =>
        IF Truthy(chat_format)
        THEN /\ engineCall.method = "create_chat_completion"
             /\ engineCall.prompt = ""
             /\ engineCall.messages /= <<>>
             /\ engineCall.messages[Len(engineCall.messages)] =
                    [role |-> "user", content |-> HandlerPrompt]
        ELSE /\ engineCall.method = "create_completion"
             /\ engineCall.messages = <<>>
             /\ engineCall.prompt =
                    IF completion_template = "Query: {input} Response:"
                    THEN "Query: " \o HandlerPrompt \o " Response:"
                    ELSE HandlerPrompt
             /\ Truthy(completion_template) =>
                    completion_template = "Query: {input} Response:"

\* C16 witness: a completion call whose prompt was wrapped in the template.
C16_Witness ==
    /\ rstate = "done"
    /\ req.endpoint = "/v1/completions"
    /\ ~Truthy(chat_format)
    /\ Truthy(completion_template)
    /\ engineCall.prompt = "Query: hi Response:"

\* The path under nexa_server_output that a url names.
PathOfUrl(url) == SubSeq(url, Len(AbsPath("")) + 1, Len(url))

\* An image request has just been answered with entries.
ImageAnswered ==
    /\ rstate = "done"
    /\ req.endpoint \in ImageEndpoints
    /\ resp.kind = "json"

\* Every entry of the answer has a url of its own, and the file it names holds the
\* image whose base64 the entry carries.
EntriesOwnTheirFiles ==
    /\ \A i \in 1..Len(resp.data) : \A j \in 1..Len(resp.data) :
          i /= j => resp.data[i].url /= resp.data[j].url
    /\ \A i \in 1..Len(resp.data) :
          /\ PathOfUrl(resp.data[i].url) \in DOMAIN outFiles
          /\ B64(outFiles[PathOfUrl(resp.data[i].url)]) = resp.data[i].base64

\* C17: when txt2img or img2img answers, no two entries of the answer share an
\* output path, every entry's url names a file holding that entry's image, and no
\* file written for an earlier answer has been given another image.
C17_OutputPathsUnique ==
    [][ImageAnswered' =>
        /\ EntriesOwnTheirFiles'
        /\ \A q \in DOMAIN outFiles : outFiles'[q] = outFiles[q]]_vars

====
